---- MODULE Spec2Model ----
(***************************************************************************)
(* A model of go-retry: the retry executor (retry.go, DoValue / Do), the   *)
(* repeat executor (repeat.go, Repeat) and the backoffs they drive         *)
(* (NewConstant, NewExponential, NewFibonacci, WithMaxRetries, a           *)
(* caller-supplied BackoffFunc).                                           *)
(*                                                                         *)
(* Spec:       one DoValue call.  The context's cancellation, the timer    *)
(*             and the return of the caller's operation are the            *)
(*             environment; every place where DoValue reads the context is *)
(*             a separate step, so that a cancellation may fall between    *)
(*             any two of them.                                            *)
(* SpecRepeat: one Repeat call, in the same way.                           *)
(* SpecB:      a backoff is constructed and threads call Next on it, one   *)
(*             thread again and again or several threads concurrently;     *)
(*             every access to shared memory is a separate step.           *)
(* SpecShared: two Do calls share one WithMaxRetries backoff, concurrently *)
(*             or one after the other.                                     *)
(* SpecFair:   one Do call as in Spec, with weak fairness of everything    *)
(*             but the cancellation, for what Do does in the end.          *)
(* SpecW:      a wrapper (Constant, Exponential, Fibonacci) builds its     *)
(*             backoff from base and runs Do with it.                      *)
(* SpecM:      a middleware of repeat.go (WithJitter, WithJitterPercent,   *)
(*             WithCappedDuration, WithMaxDuration, WithRetryable) is      *)
(*             built around a backoff and called while the clock moves;    *)
(*             Reset puts a chain back into its initial state.             *)
(***************************************************************************)
EXTENDS Integers, Sequences, FiniteSets, TLC

\* ---------------------------------------------------------------- bounds
\* largest retry limit handed to WithMaxRetries
MaxK == 2
\* largest delay (in clock ticks) a backoff returns
MaxDelay == 2
\* largest number of operation invocations explored in one DoValue call;
\* more than MaxK + 1, so that a chain without WithMaxRetries is seen to go
\* on past any retry limit
MaxCalls == 4
\* width of a time.Duration in the model, in bits (Go's is 64; the model
\* keeps two's complement arithmetic at a width the checker can enumerate)
DurationBits == 6
\* largest base handed to a constructor (the smallest is -1)
MaxBase == 3
\* largest number of Next calls one thread makes on a backoff
MaxNexts == 8
\* largest number of threads calling Next on one backoff
MaxThreads == 3

\* ---------------------------------------------------------------- errors
\* An error value is its Unwrap chain, outermost layer first:
\*   <<>>                 nil
\*   <<"e1">>             a plain error
\*   <<"R", "e1">>        RetryableError(e1)       (*retryableError)
\*   <<"W", "R", "e1">>   fmt.Errorf("%w", RetryableError(e1))
Nil == <<>>

\* context.Canceled and context.DeadlineExceeded
CtxErrors == { <<"context canceled">>, <<"context deadline exceeded">> }

\* the errors the caller's operation may return
PlainErrors == { <<"e1">>, <<"e2">> }

\* mutant: nil is marked like any error
RetryableError_NoNilCheck(err) == <<"R">> \o err

\* retry.go: RetryableError
RetryableError(err) == IF err = Nil THEN Nil ELSE <<"R">> \o err

\* a foreign wrapper around err (fmt.Errorf with %w), Unwrap gives err back
Wrap(err) == <<"W">> \o err

\* mutant: the wrapper is handed back instead of its cause
Unwrap_Identity(e) == e

\* mutant: the cause is lost
Unwrap_Nil(e) == Nil

\* retry.go: (*retryableError).Unwrap
Unwrap(e) == Tail(e)

\* mutant: every non-nil error counts as retryable
AsRetryable_Any(err) == err

\* mutant: only the outermost error is looked at
AsRetryable_TopOnly(err) ==
  IF err # Nil /\ Head(err) = "R" THEN err ELSE Nil

\* errors.As(err, &rerr) for rerr *retryableError: the first *retryableError
\* on err's Unwrap chain, Nil when there is none
RECURSIVE AsRetryable(_)
AsRetryable(err) ==
  IF err = Nil THEN Nil
  ELSE IF Head(err) = "R" THEN err
  ELSE IF Head(err) = "W" THEN AsRetryable(Tail(err))
  ELSE Nil

OpErrors ==
  {Nil, RetryableError(Nil)} \cup PlainErrors
        \cup { RetryableError(e) : e \in PlainErrors }
        \cup { Wrap(RetryableError(<<"e1">>)) }

\* values a RetryFuncValue may return; 0 is the zero value of T (nilT)
NilT == 0
Values == {NilT, 1}

\* ---------------------------------------------------------------- backoffs
\* repeat.go: const Stop = time.Duration(-1)
Stop == 0 - 1

\* repeat.go: IsStopped
IsStopped(delay) == delay < 0

\* backoff_constant.go: the closure NewConstant returns
ConstantNext(t) == [delay |-> t, stop |-> FALSE]

\* what the innermost backoff of kind k may answer to one Next call:
\* "constant" is NewConstant(base), "func" is any caller-supplied BackoffFunc
InnerAnswers(bk) ==
  IF bk.kind = "constant"
  THEN { ConstantNext(bk.base) }
  ELSE { [delay |-> d, stop |-> FALSE] : d \in 0..MaxDelay }
         \cup { [delay |-> Stop, stop |-> TRUE] }

\* mutant: the limit is compared with > instead of >=
MaxRetriesNext_OffByOne(bk, ans) ==
  IF bk.attempt > bk.max
  THEN [delay |-> Stop, stop |-> IsStopped(Stop), b |-> bk, inner |-> FALSE]
  ELSE [delay |-> ans.delay, stop |-> ans.stop,
        b |-> [bk EXCEPT !.attempt = @ + 1], inner |-> TRUE]

\* mutant: the attempt is not counted
MaxRetriesNext_NoCount(bk, ans) ==
  IF bk.attempt >= bk.max
  THEN [delay |-> Stop, stop |-> IsStopped(Stop), b |-> bk, inner |-> FALSE]
  ELSE [delay |-> ans.delay, stop |-> ans.stop, b |-> bk, inner |-> TRUE]

\* mutant: the last of the max attempts is refused
MaxRetriesNext_OneFewer(bk, ans) ==
  IF bk.attempt + 1 >= bk.max
  THEN [delay |-> Stop, stop |-> IsStopped(Stop), b |-> bk, inner |-> FALSE]
  ELSE [delay |-> ans.delay, stop |-> ans.stop,
        b |-> [bk EXCEPT !.attempt = @ + 1], inner |-> TRUE]

\* mutant: next.Next is called before the limit is looked at
MaxRetriesNext_CallsInner(bk, ans) ==
  IF bk.attempt >= bk.max
  THEN [delay |-> Stop, stop |-> IsStopped(Stop), b |-> bk, inner |-> TRUE]
  ELSE [delay |-> ans.delay, stop |-> ans.stop,
        b |-> [bk EXCEPT !.attempt = @ + 1], inner |-> TRUE]

\* repeat.go: the closure WithMaxRetries returns.  ans is what next.Next
\* answers if it is called.  The result carries the backoff's new state and
\* whether next.Next was called.
MaxRetriesNext(bk, ans) ==
  IF bk.attempt >= bk.max
  THEN [delay |-> Stop, stop |-> IsStopped(Stop), b |-> bk, inner |-> FALSE]
  ELSE [delay |-> ans.delay, stop |-> ans.stop,
        b |-> [bk EXCEPT !.attempt = @ + 1], inner |-> TRUE]

\* b.Next() as DoValue sees it: through WithMaxRetries when the chain has
\* one, straight to the innermost backoff otherwise
BackoffNext(bk, ans) ==
  IF bk.useMax
  THEN MaxRetriesNext(bk, ans)
  ELSE [delay |-> ans.delay, stop |-> ans.stop, b |-> bk, inner |-> TRUE]

\* ---------------------------------------------------------------- retry count
\* retry.go: setRetryCount; a context's values are a function from keys
setRetryCount(ctxv, n) == [k \in (DOMAIN ctxv) \cup {"retryCountKey"} |->
                             IF k = "retryCountKey" THEN n ELSE ctxv[k]]

\* retry.go: GetRetryCount
GetRetryCount(ctxv) ==
  IF "retryCountKey" \in DOMAIN ctxv THEN ctxv["retryCountKey"] ELSE 0

\* the values of the context the caller hands to Do: none
ParentCtx == [k \in {} |-> 0]

VARIABLES
  api,        \* "Do" or "DoValue": the entry point that was called
  ctxDone,    \* ctx.Done() is closed
  ctxErr,     \* ctx.Err(); Nil while the context is live
  b,          \* the backoff chain and its state
  pc,         \* where DoValue is
  retries,    \* DoValue's local retries
  next,       \* DoValue's local next (the delay b.Next returned)
  timer,      \* ticks until t.C is ready; -1 when no timer is armed
  opCtx,      \* the values of ctxWithRetryCount handed to the operation
  result,     \* what DoValue returned
  log,        \* history: the events of this call, in order
  rets,       \* history: the errors the invocations returned, in order
  cancelAt    \* history: where DoValue was when the context was cancelled

dovars == <<api, ctxDone, ctxErr, b, pc, retries, next, timer, opCtx, result,
            log, rets, cancelAt>>

\* ---------------------------------------------------------------- callers of Next
\* The backoffs are also driven directly, by threads that call Next on one
\* shared instance (the tests' goroutines).  While DoValue or Repeat is
\* looked at these stay idle, and the other way round.
VARIABLES
  made,       \* what the constructor gave: "new" (not yet called), "ok",
              \* "error" or "panic"
  th,         \* the calling threads: where each is in Next
  outs        \* history: the answers of the completed Next calls, in order

bvars == <<made, th, outs>>

\* no thread drives a backoff directly
IdleB ==
  /\ made = "ok"
  /\ th = <<>>
  /\ outs = <<>>

\* ---------------------------------------------------------------- sharing, time
\* One backoff may be handed to several Do calls that run concurrently or
\* one after the other, and WithMaxDuration reads the clock.  Both stay idle
\* while a single call is looked at.
VARIABLES
  ex,         \* the Do calls that share b: where each is, and its history
  now,        \* the monotonic clock (time.Now, time.Since)
  val         \* history: the value the last invocation returned

xvars == <<ex, now, val>>

\* no Do call shares the backoff and the clock stands
IdleX ==
  /\ ex = <<>>
  /\ now = 0
  /\ val = NilT

vars == <<dovars, bvars, xvars>>

\* ---------------------------------------------------------------- history
Count(ev) == Cardinality({ i \in DOMAIN log : log[i] = ev })
\* operation invocations begun
calls == Count("call")
\* b.Next() calls made
nexts == Count("next")
\* timers armed
armed == Count("arm")
\* waits that ended with the timer (t.C), not with the context
elapsed == Count("elapsed")

Never == [pc |-> "never", at |-> 0]

\* ---------------------------------------------------------------- Init
Backoffs ==
  { [useMax |-> u, max |-> m, attempt |-> 0, kind |-> k, base |-> d] :
      u \in BOOLEAN, m \in 0..MaxK, k \in {"constant", "func"},
      d \in 1..MaxDelay }

Init ==
  /\ api \in {"Do", "DoValue"}
  /\ b \in { x \in Backoffs : (~x.useMax => x.max = 0)
                               /\ (x.kind = "func" => x.base = 1) }
  /\ \/ ctxDone = FALSE /\ ctxErr = Nil /\ cancelAt = Never
     \/ ctxDone = TRUE /\ ctxErr \in CtxErrors
                       /\ cancelAt = [pc |-> "before", at |-> 0]
  /\ pc = "top"
  /\ retries = 0
  /\ next = 0
  /\ timer = 0 - 1
  /\ opCtx = ParentCtx
  /\ result = [v |-> NilT, err |-> Nil]
  /\ log = <<>>
  /\ rets = <<>>
  /\ IdleB
  /\ IdleX

\* ---------------------------------------------------------------- environment
\* the context is cancelled (cancel() or its deadline) while DoValue runs
Cancel ==
  /\ ~ctxDone
  /\ pc # "done"
  /\ ctxDone' = TRUE
  /\ ctxErr' \in CtxErrors
  /\ cancelAt' = [pc |-> pc, at |-> Len(log)]
  /\ UNCHANGED <<api, b, pc, retries, next, timer, opCtx, result, log, rets>>

\* time passes while DoValue waits on the timer
Tick ==
  /\ pc = "wait"
  /\ timer > 0
  /\ timer' = timer - 1
  /\ UNCHANGED <<api, ctxDone, ctxErr, b, pc, retries, next, opCtx, result,
                 log, rets, cancelAt>>

\* ---------------------------------------------------------------- DoValue
Return(v, err) ==
  /\ pc' = "done"
  /\ result' = [v |-> v, err |-> err]

\* mutant: the loop does not look at the context before calling f
CheckTop_NoCtx ==
  /\ pc = "top"
  /\ pc' = "call"
  /\ UNCHANGED <<api, ctxDone, ctxErr, b, retries, next, timer, opCtx,
                 result, log, rets, cancelAt>>

\* retry.go 72-77: the select at the head of the loop
CheckTop ==
  /\ pc = "top"
  /\ IF ctxDone
     THEN /\ Return(NilT, ctxErr)
          /\ log' = Append(log, "ctx")
     ELSE /\ pc' = "call"
          /\ UNCHANGED <<result, log>>
  /\ UNCHANGED <<api, ctxDone, ctxErr, b, retries, next, timer, opCtx,
                 rets, cancelAt>>

\* mutant: the count handed to f is one-based
Invoke_OneBased ==
  /\ pc = "call"
  /\ calls < MaxCalls
  /\ opCtx' = setRetryCount(ParentCtx, retries + 1)
  /\ pc' = "inflight"
  /\ log' = Append(log, "call")
  /\ UNCHANGED <<api, ctxDone, ctxErr, b, retries, next, timer, result,
                 rets, cancelAt>>

\* retry.go 80-81: build ctxWithRetryCount and enter f.  The invocations
\* are counted up to MaxCalls; the one that may follow a cancellation is
\* always let through
Invoke ==
  /\ pc = "call"
  /\ calls < MaxCalls \/ ctxDone
  /\ opCtx' = setRetryCount(ParentCtx, retries)
  /\ pc' = "inflight"
  /\ log' = Append(log, "call")
  /\ UNCHANGED <<api, ctxDone, ctxErr, b, retries, next, timer, result,
                 rets, cancelAt>>

\* mutant: a successful attempt does not leave the loop
OnSuccess_Loop(v) ==
  /\ pc' = "top"
  /\ log' = Append(log, "ret")
  /\ UNCHANGED <<b, next, result>>

\* mutant: the zero value is returned on success too
OnSuccess_DropValue(v) ==
  /\ Return(NilT, Nil)
  /\ log' = Append(log, "ret")
  /\ UNCHANGED <<b, next>>

\* retry.go 82-84: err == nil
OnSuccess(v) ==
  /\ Return(v, Nil)
  /\ log' = Append(log, "ret")
  /\ UNCHANGED <<b, next>>

\* mutant: an error without the marker is retried like a marked one
OnNotRetryable_Retry(err) ==
  /\ pc' = "check2"
  /\ log' = Append(log, "ret")
  /\ UNCHANGED <<b, next, result>>

\* mutant: the context is looked at before the error is returned
OnNotRetryable_CtxFirst(err) ==
  /\ Return(NilT, IF ctxDone THEN ctxErr ELSE err)
  /\ log' = Append(log, "ret")
  /\ UNCHANGED <<b, next>>

\* retry.go 86-90: errors.As finds no *retryableError
OnNotRetryable(err) ==
  /\ Return(NilT, err)
  /\ log' = Append(log, "ret")
  /\ UNCHANGED <<b, next>>

\* mutant: the backoff's stop is not looked at
OnRetryable_IgnoreStop(err, ans) ==
  LET r == BackoffNext(b, ans) IN
  /\ b' = r.b
  /\ log' = log \o <<"ret", "next">>
  /\ pc' = "check2"
  /\ next' = r.delay
  /\ UNCHANGED result

\* retry.go 92-95: b.Next(), and the return when it says stop
OnRetryable(err, ans) ==
  LET r == BackoffNext(b, ans) IN
  /\ b' = r.b
  /\ log' = log \o <<"ret", "next">>
  /\ IF r.stop
     THEN /\ Return(NilT, Unwrap(AsRetryable(err)))
          /\ UNCHANGED next
     ELSE /\ pc' = "check2"
          /\ next' = r.delay
          /\ UNCHANGED result

\* retry.go 81-95: f returns (v, err); DoValue classifies err and, for a
\* retryable one, asks the backoff.  Do's wrapper (retry.go 119-121) always
\* returns a nil value.
OpReturn(v, err, ans) ==
  /\ pc = "inflight"
  /\ api = "Do" => v = NilT
  /\ rets' = Append(rets, err)
  /\ IF err = Nil THEN OnSuccess(v)
     ELSE IF AsRetryable(err) = Nil THEN OnNotRetryable(err)
     ELSE OnRetryable(err, ans)
  /\ UNCHANGED <<api, ctxDone, ctxErr, retries, timer, opCtx, cancelAt>>

\* the operation returns (v, err) to DoValue; the value is noted
Operation(v, err, ans) ==
  /\ OpReturn(v, err, ans)
  /\ val' = v
  /\ UNCHANGED <<ex, now>>

\* mutant: the timer is armed without looking at the context first
CheckBeforeTimer_NoCtx ==
  /\ pc = "check2"
  /\ pc' = "wait"
  /\ timer' = IF next > 0 THEN next ELSE 0
  /\ log' = Append(log, "arm")
  /\ UNCHANGED <<api, ctxDone, ctxErr, b, retries, next, opCtx, result,
                 rets, cancelAt>>

\* retry.go 97-104: the select before the timer, then time.NewTimer(next)
CheckBeforeTimer ==
  /\ pc = "check2"
  /\ IF ctxDone
     THEN /\ Return(NilT, ctxErr)
          /\ log' = Append(log, "ctx")
          /\ UNCHANGED timer
     ELSE /\ pc' = "wait"
          /\ timer' = IF next > 0 THEN next ELSE 0
          /\ log' = Append(log, "arm")
          /\ UNCHANGED result
  /\ UNCHANGED <<api, ctxDone, ctxErr, b, retries, next, opCtx, rets,
                 cancelAt>>

\* retry.go 105-108: the wait ends with ctx.Done()
WaitCtxDone ==
  /\ pc = "wait"
  /\ ctxDone
  /\ Return(NilT, ctxErr)
  /\ log' = Append(log, "ctx")
  /\ UNCHANGED <<api, ctxDone, ctxErr, b, retries, next, timer, opCtx,
                 rets, cancelAt>>

\* mutant: after the wait the loop goes straight to the next call
WaitElapsed_SkipCheck ==
  /\ pc = "wait"
  /\ timer = 0
  /\ retries' = retries + 1
  /\ timer' = 0 - 1
  /\ pc' = "call"
  /\ log' = Append(log, "elapsed")
  /\ UNCHANGED <<api, ctxDone, ctxErr, b, next, opCtx, result, rets,
                 cancelAt>>

\* retry.go 109-111: the wait ends with t.C
WaitElapsed ==
  /\ pc = "wait"
  /\ timer = 0
  /\ retries' = retries + 1
  /\ timer' = 0 - 1
  /\ pc' = "top"
  /\ log' = Append(log, "elapsed")
  /\ UNCHANGED <<api, ctxDone, ctxErr, b, next, opCtx, result, rets,
                 cancelAt>>

Next ==
  \/ Cancel /\ UNCHANGED <<bvars, xvars>>
  \/ Tick /\ UNCHANGED <<bvars, xvars>>
  \/ CheckTop /\ UNCHANGED <<bvars, xvars>>
  \/ Invoke /\ UNCHANGED <<bvars, xvars>>
  \/ \E v \in Values, err \in OpErrors, ans \in InnerAnswers(b) :
       Operation(v, err, ans) /\ UNCHANGED bvars
  \/ CheckBeforeTimer /\ UNCHANGED <<bvars, xvars>>
  \/ WaitCtxDone /\ UNCHANGED <<bvars, xvars>>
  \/ WaitElapsed /\ UNCHANGED <<bvars, xvars>>

Spec == Init /\ [][Next]_vars

\* Do alone, for what it does in the end
InitDo == Init /\ api = "Do"

\* what goes on by itself: the goroutine that runs DoValue is scheduled, the
\* timer runs down, and an invocation that was begun returns.  Only the
\* cancellation is left to the caller
Step ==
  \/ Tick /\ UNCHANGED <<bvars, xvars>>
  \/ CheckTop /\ UNCHANGED <<bvars, xvars>>
  \/ Invoke /\ UNCHANGED <<bvars, xvars>>
  \/ \E v \in Values, err \in OpErrors, ans \in InnerAnswers(b) :
       Operation(v, err, ans) /\ UNCHANGED bvars
  \/ CheckBeforeTimer /\ UNCHANGED <<bvars, xvars>>
  \/ WaitCtxDone /\ UNCHANGED <<bvars, xvars>>
  \/ WaitElapsed /\ UNCHANGED <<bvars, xvars>>

SpecFair == InitDo /\ [][Next]_vars /\ WF_vars(Step)


\* ---------------------------------------------------------------- Repeat
\* One Repeat call (repeat.go 16-50) uses DoValue's variables: pc, next,
\* timer, result.err, and the same history.  f gets ctx itself, so opCtx
\* and retries stay as they are.
InitRepeat ==
  /\ api = "Repeat"
  /\ b \in { x \in Backoffs : (~x.useMax => x.max = 0)
                               /\ (x.kind = "func" => x.base = 1) }
  /\ \/ ctxDone = FALSE /\ ctxErr = Nil /\ cancelAt = Never
     \/ ctxDone = TRUE /\ ctxErr \in CtxErrors
                       /\ cancelAt = [pc |-> "before", at |-> 0]
  /\ pc = "top"
  /\ retries = 0
  /\ next = 0
  /\ timer = 0 - 1
  /\ opCtx = ParentCtx
  /\ result = [v |-> NilT, err |-> Nil]
  /\ log = <<>>
  /\ rets = <<>>
  /\ IdleB
  /\ IdleX

\* repeat.go 18-23: the select at the head of the loop
RepeatCheckTop ==
  /\ pc = "top"
  /\ IF ctxDone
     THEN /\ Return(NilT, ctxErr)
          /\ log' = Append(log, "ctx")
     ELSE /\ pc' = "call"
          /\ UNCHANGED <<result, log>>
  /\ UNCHANGED <<api, ctxDone, ctxErr, b, retries, next, timer, opCtx,
                 rets, cancelAt>>

\* repeat.go 25: enter f(ctx)
RepeatInvoke ==
  /\ pc = "call"
  /\ calls < MaxCalls
  /\ pc' = "inflight"
  /\ log' = Append(log, "call")
  /\ UNCHANGED <<api, ctxDone, ctxErr, b, retries, next, timer, opCtx,
                 result, rets, cancelAt>>

\* mutant: a marked error is unwrapped, as Do does when it gives up
RepeatOnError_Unwrap(err) ==
  /\ Return(NilT, IF AsRetryable(err) = Nil THEN err
                  ELSE Unwrap(AsRetryable(err)))
  /\ log' = Append(log, "ret")
  /\ UNCHANGED <<b, next>>

\* repeat.go 25-27: err != nil
RepeatOnError(err) ==
  /\ Return(NilT, err)
  /\ log' = Append(log, "ret")
  /\ UNCHANGED <<b, next>>

\* repeat.go 29-32: b.Next(), and the return when it says stop
RepeatOnSuccess(ans) ==
  LET r == BackoffNext(b, ans) IN
  /\ b' = r.b
  /\ log' = log \o <<"ret", "next">>
  /\ IF r.stop
     THEN /\ Return(NilT, Nil)
          /\ UNCHANGED next
     ELSE /\ pc' = "check2"
          /\ next' = r.delay
          /\ UNCHANGED result

\* repeat.go 25-32: f returns err
RepeatOpReturn(err, ans) ==
  /\ pc = "inflight"
  /\ rets' = Append(rets, err)
  /\ IF err # Nil THEN RepeatOnError(err) ELSE RepeatOnSuccess(ans)
  /\ UNCHANGED <<api, ctxDone, ctxErr, retries, timer, opCtx, cancelAt>>

\* mutant: Repeat arms the timer without looking at the context first
RepeatCheckBeforeTimer_NoCtx ==
  /\ pc = "check2"
  /\ pc' = "wait"
  /\ timer' = IF next > 0 THEN next ELSE 0
  /\ log' = Append(log, "arm")
  /\ UNCHANGED <<api, ctxDone, ctxErr, b, retries, next, opCtx, rets,
                 cancelAt, result>>

\* repeat.go 34-41: the select before the timer, then time.NewTimer(next)
RepeatCheckBeforeTimer ==
  /\ pc = "check2"
  /\ IF ctxDone
     THEN /\ Return(NilT, ctxErr)
          /\ log' = Append(log, "ctx")
          /\ UNCHANGED timer
     ELSE /\ pc' = "wait"
          /\ timer' = IF next > 0 THEN next ELSE 0
          /\ log' = Append(log, "arm")
          /\ UNCHANGED result
  /\ UNCHANGED <<api, ctxDone, ctxErr, b, retries, next, opCtx, rets,
                 cancelAt>>

\* repeat.go 42-45: the wait ends with ctx.Done()
RepeatWaitCtxDone ==
  /\ pc = "wait"
  /\ ctxDone
  /\ Return(NilT, ctxErr)
  /\ log' = Append(log, "ctx")
  /\ UNCHANGED <<api, ctxDone, ctxErr, b, retries, next, timer, opCtx,
                 rets, cancelAt>>

\* repeat.go 46-47: the wait ends with t.C
RepeatWaitElapsed ==
  /\ pc = "wait"
  /\ timer = 0
  /\ timer' = 0 - 1
  /\ pc' = "top"
  /\ log' = Append(log, "elapsed")
  /\ UNCHANGED <<api, ctxDone, ctxErr, b, retries, next, opCtx, result,
                 rets, cancelAt>>

NextRepeat ==
  \/ Cancel /\ UNCHANGED <<bvars, xvars>>
  \/ Tick /\ UNCHANGED <<bvars, xvars>>
  \/ RepeatCheckTop /\ UNCHANGED <<bvars, xvars>>
  \/ RepeatInvoke /\ UNCHANGED <<bvars, xvars>>
  \/ \E err \in OpErrors, ans \in InnerAnswers(b) :
       RepeatOpReturn(err, ans) /\ UNCHANGED <<bvars, xvars>>
  \/ RepeatCheckBeforeTimer /\ UNCHANGED <<bvars, xvars>>
  \/ RepeatWaitCtxDone /\ UNCHANGED <<bvars, xvars>>
  \/ RepeatWaitElapsed /\ UNCHANGED <<bvars, xvars>>

SpecRepeat == InitRepeat /\ [][NextRepeat]_vars

\* ---------------------------------------------------------------- durations
\* math.MaxInt64 at the model's width
MaxDuration == 2^(DurationBits - 1) - 1

\* the value an int64 holds after an arithmetic result x (two's complement)
WrapDuration(x) ==
  ((x + 2^(DurationBits - 1)) % 2^DurationBits) - 2^(DurationBits - 1)

\* Go's x << n for a signed x and an unsigned count n
Shl(x, n) == IF n >= DurationBits THEN 0 ELSE WrapDuration(x * 2^n)

\* ---------------------------------------------------------------- algorithms
\* backoff_constant.go 20-23
NewConstant(t) == IF t <= 0 THEN "error" ELSE "ok"

\* backoff_exponential.go 30-33
NewExponential(base) == IF base <= 0 THEN "error" ELSE "ok"

\* backoff_fibonacci.go 26-29
NewFibonacci(base) == IF base <= 0 THEN "panic" ELSE "ok"

\* mutant: the shift count is the attempt itself
ExponentialAnswer_NoMinus(base, n) ==
  [delay |-> Shl(base, n), stop |-> FALSE]

\* mutant: a delay that went negative is reported as a stop
ExponentialAnswer_StopOnNegative(base, n) ==
  [delay |-> Shl(base, n - 1), stop |-> IsStopped(Shl(base, n - 1))]

\* backoff_exponential.go 42: what Next returns when AddUint64 gave n
ExponentialAnswer(base, n) ==
  [delay |-> Shl(base, n - 1), stop |-> FALSE]

\* backoff_fibonacci.go 32: the state NewFibonacci starts from
FibonacciInit(base) == <<0, base>>

\* mutant: the new pair is stored the other way round
FibonacciNextState_Swapped(pair) ==
  <<WrapDuration(pair[1] + pair[2]), pair[2]>>

\* backoff_fibonacci.go 41-43: the state Next tries to swap in; its second
\* element is the value Next returns
FibonacciNextState(pair) == <<pair[2], WrapDuration(pair[1] + pair[2])>>

\* backoff_fibonacci.go 41-44: what Next returns when its swap succeeds
FibonacciAnswer(pair) ==
  [delay |-> WrapDuration(pair[1] + pair[2]), stop |-> FALSE]

\* one whole Next call on the innermost backoff, with nothing in between:
\* the answer and the backoff's new state
InnerNext(bk) ==
  IF bk.kind = "constant"
  THEN [ans |-> ConstantNext(bk.base), b |-> bk]
  ELSE IF bk.kind = "exponential"
  THEN [ans |-> ExponentialAnswer(bk.base, bk.n + 1),
        b |-> [bk EXCEPT !.n = @ + 1]]
  ELSE [ans |-> FibonacciAnswer(bk.pair),
        b |-> [bk EXCEPT !.pair = FibonacciNextState(@), !.ver = @ + 1]]

\* one whole Next call on the chain: WithMaxRetries, when the chain has it,
\* decides whether the innermost backoff is called at all
ChainNext(bk) ==
  LET in == InnerNext(bk)
      r  == IF bk.useMax
            THEN MaxRetriesNext(in.b, in.ans)
            ELSE [delay |-> in.ans.delay, stop |-> in.ans.stop,
                  b |-> in.b, inner |-> TRUE]
  IN  IF r.inner
      THEN r
      ELSE [r EXCEPT !.b = bk]

\* ---------------------------------------------------------------- threads
Chains ==
  { [useMax |-> u, max |-> m, attempt |-> 0, kind |-> k, base |-> d,
     n |-> 0, pair |-> FibonacciInit(d), ver |-> 0] :
      u \in BOOLEAN, m \in 0..MaxK,
      k \in {"constant", "exponential", "fibonacci"},
      d \in (0 - 1)..MaxBase }

Thread(left) ==
  [pc |-> "idle", left |-> left, n |-> 0,
   curr |-> [ver |-> 0, pair |-> <<0, 0>>], retried |-> FALSE,
   tries |-> 0]

\* the Next calls each of k threads makes: one thread calls again and again,
\* two threads call twice each, more threads call once each (the tests'
\* goroutines)
CallsOf(k) == IF k = 1 THEN MaxNexts ELSE IF k = 2 THEN 2 ELSE 1

InitB ==
  /\ api = "Next"
  /\ b \in { x \in Chains : ~x.useMax => x.max = 0 }
  /\ ctxDone = FALSE /\ ctxErr = Nil /\ cancelAt = Never
  /\ pc = "top"
  /\ retries = 0
  /\ next = 0
  /\ timer = 0 - 1
  /\ opCtx = ParentCtx
  /\ result = [v |-> NilT, err |-> Nil]
  /\ log = <<>>
  /\ rets = <<>>
  /\ made = "new"
  /\ \E k \in 1..MaxThreads :
       th = [t \in 1..k |-> Thread(CallsOf(k))]
  /\ outs = <<>>
  /\ IdleX

DoIdle == UNCHANGED <<api, ctxDone, ctxErr, pc, retries, next, timer, opCtx,
                      result, log, rets, cancelAt, xvars>>

\* NewConstant, NewExponential or NewFibonacci is called with b.base
\* (WithMaxRetries, which checks nothing, is wrapped around the outcome)
Construct ==
  /\ made = "new"
  /\ made' = IF b.kind = "constant" THEN NewConstant(b.base)
             ELSE IF b.kind = "exponential" THEN NewExponential(b.base)
             ELSE NewFibonacci(b.base)
  /\ UNCHANGED <<b, th, outs>>
  /\ DoIdle

Answer(t, r) == [t |-> t, delay |-> r.delay, stop |-> r.stop]

\* a Next call that nothing can interleave with: NewConstant's closure has
\* no state, and WithMaxRetries holds its mutex from the first line to the
\* return of next.Next (repeat.go 159-167)
CallAtomic(t) ==
  /\ made = "ok"
  /\ b.useMax \/ b.kind = "constant"
  /\ th[t].pc = "idle"
  /\ th[t].left > 0
  /\ LET r == ChainNext(b) IN
       /\ b' = r.b
       /\ outs' = Append(outs, Answer(t, r))
  /\ th' = [th EXCEPT ![t].left = @ - 1]
  /\ UNCHANGED made
  /\ DoIdle

\* backoff_exponential.go 42: atomic.AddUint64(&b.attempt, 1)
ExpAdd(t) ==
  /\ made = "ok"
  /\ ~b.useMax /\ b.kind = "exponential"
  /\ th[t].pc = "idle"
  /\ th[t].left > 0
  /\ b' = [b EXCEPT !.n = @ + 1]
  /\ th' = [th EXCEPT ![t].pc = "added", ![t].n = b.n + 1]
  /\ UNCHANGED <<made, outs>>
  /\ DoIdle

\* backoff_exponential.go 42: the shift and the return
ExpReturn(t) ==
  /\ th[t].pc = "added"
  /\ outs' = Append(outs, Answer(t, ExponentialAnswer(b.base, th[t].n)))
  /\ th' = [th EXCEPT ![t].pc = "idle", ![t].left = @ - 1]
  /\ UNCHANGED <<made, b>>
  /\ DoIdle

\* backoff_fibonacci.go 39-41: atomic.LoadPointer and the sum
FibLoad(t) ==
  /\ made = "ok"
  /\ ~b.useMax /\ b.kind = "fibonacci"
  /\ th[t].pc = "idle"
  /\ th[t].left > 0
  /\ th' = [th EXCEPT ![t].pc = "loaded",
                      ![t].curr = [ver |-> b.ver, pair |-> b.pair]]
  /\ UNCHANGED <<made, b, outs>>
  /\ DoIdle

\* mutant: the new state is stored without comparing
FibCAS_Store(t) ==
  /\ th[t].pc = "loaded"
  /\ b' = [b EXCEPT !.pair = FibonacciNextState(th[t].curr.pair),
                    !.ver = @ + 1]
  /\ outs' = Append(outs, Answer(t, FibonacciAnswer(th[t].curr.pair)))
  /\ th' = [th EXCEPT ![t].pc = "idle", ![t].left = @ - 1]
  /\ UNCHANGED made
  /\ DoIdle

\* mutant: the swap may fail though the pointer is the one that was loaded
FibCAS_Spurious(t) ==
  /\ th[t].pc = "loaded"
  /\ \/ /\ b.ver = th[t].curr.ver
        /\ b' = [b EXCEPT !.pair = FibonacciNextState(th[t].curr.pair),
                          !.ver = @ + 1]
        /\ outs' = Append(outs, Answer(t, FibonacciAnswer(th[t].curr.pair)))
        /\ th' = [th EXCEPT ![t].pc = "idle", ![t].left = @ - 1]
     \/ /\ th' = [th EXCEPT ![t].pc = "idle", ![t].retried = TRUE,
                             ![t].tries = @ + 1]
        /\ UNCHANGED <<b, outs>>
  /\ UNCHANGED made
  /\ DoIdle

\* backoff_fibonacci.go 43-45: atomic.CompareAndSwapPointer; the pointer is
\* the one that was loaded exactly when no swap succeeded in between (every
\* swap stores a freshly allocated state), else the loop starts again
FibCAS(t) ==
  /\ th[t].pc = "loaded"
  /\ IF b.ver = th[t].curr.ver
     THEN /\ b' = [b EXCEPT !.pair = FibonacciNextState(th[t].curr.pair),
                            !.ver = @ + 1]
          /\ outs' = Append(outs, Answer(t, FibonacciAnswer(th[t].curr.pair)))
          /\ th' = [th EXCEPT ![t].pc = "idle", ![t].left = @ - 1]
     ELSE /\ th' = [th EXCEPT ![t].pc = "idle", ![t].retried = TRUE,
                              ![t].tries = @ + 1]
          /\ UNCHANGED <<b, outs>>
  /\ UNCHANGED made
  /\ DoIdle

NextB ==
  \/ Construct
  \/ \E t \in DOMAIN th : CallAtomic(t)
  \/ \E t \in DOMAIN th : ExpAdd(t)
  \/ \E t \in DOMAIN th : ExpReturn(t)
  \/ \E t \in DOMAIN th : FibLoad(t)
  \/ \E t \in DOMAIN th : FibCAS(t)

SpecB == InitB /\ [][NextB]_vars

\* ---------------------------------------------------------------- wrappers
\* Constant, Exponential and Fibonacci: the backoff is built from base and
\* handed to Do

\* fmt.Errorf of NewConstant and NewExponential
ConstructionErrors ==
  { <<"t must be greater than 0">>, <<"base must be greater than 0">> }

WrapperKind ==
  [Constant |-> "constant", Exponential |-> "exponential",
   Fibonacci |-> "fibonacci"]

InitW ==
  /\ api \in DOMAIN WrapperKind
  /\ b \in { x \in Chains : ~x.useMax /\ x.max = 0
                             /\ x.kind = WrapperKind[api] }
  /\ \/ ctxDone = FALSE /\ ctxErr = Nil /\ cancelAt = Never
     \/ ctxDone = TRUE /\ ctxErr \in CtxErrors
                       /\ cancelAt = [pc |-> "before", at |-> 0]
  /\ pc = "new"
  /\ retries = 0
  /\ next = 0
  /\ timer = 0 - 1
  /\ opCtx = ParentCtx
  /\ result = [v |-> NilT, err |-> Nil]
  /\ log = <<>>
  /\ rets = <<>>
  /\ made = "new"
  /\ th = <<>>
  /\ outs = <<>>
  /\ IdleX

\* backoff_constant.go 11-15, backoff_exponential.go 19-23: the error of the
\* constructor is returned, else Do is entered; backoff_fibonacci.go 19:
\* NewFibonacci's panic goes up through Fibonacci
WrapperStart ==
  /\ pc = "new"
  /\ LET m == IF api = "Constant" THEN NewConstant(b.base)
              ELSE IF api = "Exponential" THEN NewExponential(b.base)
              ELSE NewFibonacci(b.base)
     IN  /\ made' = m
         /\ IF m = "error"
            THEN Return(NilT, IF api = "Constant"
                              THEN <<"t must be greater than 0">>
                              ELSE <<"base must be greater than 0">>)
            ELSE /\ pc' = IF m = "panic" THEN "panic" ELSE "top"
                 /\ UNCHANGED result
  /\ UNCHANGED <<api, ctxDone, ctxErr, b, retries, next, timer, opCtx, log,
                 rets, cancelAt, th, outs, xvars>>

\* retry.go 92-95 on the backoff the wrapper built: its Next advances it
WrapperOnRetryable(err) ==
  LET r == InnerNext(b) IN
  /\ b' = r.b
  /\ log' = log \o <<"ret", "next">>
  /\ IF r.ans.stop
     THEN /\ Return(NilT, Unwrap(AsRetryable(err)))
          /\ UNCHANGED next
     ELSE /\ pc' = "check2"
          /\ next' = r.ans.delay
          /\ UNCHANGED result

\* retry.go 81-95 as Do runs it for the wrapper: f returns err
WrapperOpReturn(err) ==
  /\ pc = "inflight"
  /\ rets' = Append(rets, err)
  /\ IF err = Nil THEN OnSuccess(NilT)
     ELSE IF AsRetryable(err) = Nil THEN OnNotRetryable(err)
     ELSE WrapperOnRetryable(err)
  /\ UNCHANGED <<api, ctxDone, ctxErr, retries, timer, opCtx, cancelAt,
                 bvars, xvars>>

NextW ==
  \/ WrapperStart
  \/ Cancel /\ UNCHANGED <<bvars, xvars>>
  \/ Tick /\ UNCHANGED <<bvars, xvars>>
  \/ CheckTop /\ UNCHANGED <<bvars, xvars>>
  \/ Invoke /\ UNCHANGED <<bvars, xvars>>
  \/ \E err \in OpErrors : WrapperOpReturn(err)
  \/ CheckBeforeTimer /\ UNCHANGED <<bvars, xvars>>
  \/ WaitCtxDone /\ UNCHANGED <<bvars, xvars>>
  \/ WaitElapsed /\ UNCHANGED <<bvars, xvars>>

SpecW == InitW /\ [][NextW]_vars

\* ---------------------------------------------------------------- shared backoff
\* Several Do calls are given the same WithMaxRetries backoff.  They run
\* concurrently; the runs in which one has returned before the other begins
\* are the reuse of a backoff by a later call.

\* the Do calls that share the backoff: two
Dos == {1, 2}

\* what the operations of these calls return
SharedErrors ==
  { Nil, <<"e1">>, RetryableError(<<"e1">>), RetryableError(<<"e2">>) }

\* a Do call that has not begun
Executor ==
  [pc |-> "top", retries |-> 0, next |-> 0, timer |-> 0 - 1,
   result |-> [v |-> NilT, err |-> Nil],
   begun |-> FALSE,      \* history: the call has entered its loop
   reused |-> FALSE,     \* history: every other call had returned by then
   attempt0 |-> 0,       \* history: the backoff's attempt count by then
   calls |-> 0,          \* history: invocations of the operation
   granted |-> 0,        \* history: Next calls that did not say stop
   stopped |-> 0,        \* history: Next calls that said stop
   rets |-> <<>>]        \* history: the errors the operation returned

InitShared ==
  /\ api = "Do"
  /\ b \in { x \in Backoffs : x.useMax /\ (x.kind = "func" => x.base = 1) }
  /\ ctxDone = FALSE /\ ctxErr = Nil /\ cancelAt = Never
  /\ pc = "top"
  /\ retries = 0
  /\ next = 0
  /\ timer = 0 - 1
  /\ opCtx = ParentCtx
  /\ result = [v |-> NilT, err |-> Nil]
  /\ log = <<>>
  /\ rets = <<>>
  /\ IdleB
  /\ ex = [e \in Dos |-> Executor]
  /\ now = 0
  /\ val = NilT

SharedIdle == UNCHANGED <<api, pc, retries, next, timer, opCtx, result, log,
                          rets, cancelAt, bvars, now, val>>

\* the context the calls share is cancelled
SharedCancel ==
  /\ ~ctxDone
  /\ \E e \in DOMAIN ex : ex[e].pc # "done"
  /\ ctxDone' = TRUE
  /\ ctxErr' \in CtxErrors
  /\ UNCHANGED <<b, ex>>
  /\ SharedIdle

\* time passes while a call waits on its timer
SharedTick(e) ==
  /\ ex[e].pc = "wait"
  /\ ex[e].timer > 0
  /\ ex' = [ex EXCEPT ![e].timer = @ - 1]
  /\ UNCHANGED <<ctxDone, ctxErr, b>>
  /\ SharedIdle

\* what a call is left with when DoValue returns (v, err)
Finished(x, v, err) == [x EXCEPT !.pc = "done", !.result = [v |-> v, err |-> err]]

\* what is noted of a call when it enters its loop
Begin(e, x) ==
  IF x.begun THEN x
  ELSE [x EXCEPT !.begun = TRUE,
                 !.reused = \A o \in DOMAIN ex \ {e} : ex[o].pc = "done",
                 !.attempt0 = b.attempt]

\* mutant: a call starts with the backoff as it was built
SharedCheckTop_Fresh(e) ==
  /\ ex[e].pc = "top"
  /\ ex' = [ex EXCEPT ![e] =
              IF ctxDone
              THEN Finished(Begin(e, @), NilT, ctxErr)
              ELSE [Begin(e, @) EXCEPT !.pc = "call"]]
  /\ b' = IF ex[e].begun THEN b ELSE [b EXCEPT !.attempt = 0]
  /\ UNCHANGED <<ctxDone, ctxErr>>
  /\ SharedIdle

\* retry.go 72-77: the select at the head of the loop
SharedCheckTop(e) ==
  /\ ex[e].pc = "top"
  /\ ex' = [ex EXCEPT ![e] =
              IF ctxDone
              THEN Finished(Begin(e, @), NilT, ctxErr)
              ELSE [Begin(e, @) EXCEPT !.pc = "call"]]
  /\ UNCHANGED <<ctxDone, ctxErr, b>>
  /\ SharedIdle

\* retry.go 80-81: enter f
SharedInvoke(e) ==
  /\ ex[e].pc = "call"
  /\ ex' = [ex EXCEPT ![e].pc = "inflight", ![e].calls = @ + 1]
  /\ UNCHANGED <<ctxDone, ctxErr, b>>
  /\ SharedIdle

\* mutant: every call counts its own attempts
SharedOpReturn_OwnCount(e, err, ans) ==
  /\ ex[e].pc = "inflight"
  /\ LET x == [ex[e] EXCEPT !.rets = Append(@, err)]
         r == BackoffNext([b EXCEPT !.attempt = x.granted], ans)
     IN  IF err = Nil
         THEN ex' = [ex EXCEPT ![e] = Finished(x, NilT, Nil)] /\ UNCHANGED b
         ELSE IF AsRetryable(err) = Nil
         THEN ex' = [ex EXCEPT ![e] = Finished(x, NilT, err)] /\ UNCHANGED b
         ELSE /\ UNCHANGED b
              /\ ex' = [ex EXCEPT ![e] =
                   IF r.stop
                   THEN Finished([x EXCEPT !.stopped = @ + 1], NilT,
                                  Unwrap(AsRetryable(err)))
                   ELSE [x EXCEPT !.granted = @ + 1, !.pc = "check2",
                                  !.next = r.delay]]
  /\ UNCHANGED <<ctxDone, ctxErr>>
  /\ SharedIdle

\* retry.go 81-95: f returns err; for a retryable one b.Next() is called on
\* the shared backoff, whose mutex (repeat.go 159-160) lets one caller in at
\* a time
SharedOpReturn(e, err, ans) ==
  /\ ex[e].pc = "inflight"
  /\ LET x == [ex[e] EXCEPT !.rets = Append(@, err)]
         r == BackoffNext(b, ans)
     IN  IF err = Nil
         THEN ex' = [ex EXCEPT ![e] = Finished(x, NilT, Nil)] /\ UNCHANGED b
         ELSE IF AsRetryable(err) = Nil
         THEN ex' = [ex EXCEPT ![e] = Finished(x, NilT, err)] /\ UNCHANGED b
         ELSE /\ b' = r.b
              /\ ex' = [ex EXCEPT ![e] =
                   IF r.stop
                   THEN Finished([x EXCEPT !.stopped = @ + 1], NilT,
                                  Unwrap(AsRetryable(err)))
                   ELSE [x EXCEPT !.granted = @ + 1, !.pc = "check2",
                                  !.next = r.delay]]
  /\ UNCHANGED <<ctxDone, ctxErr>>
  /\ SharedIdle

\* retry.go 97-104: the select before the timer, then time.NewTimer(next)
SharedCheckBeforeTimer(e) ==
  /\ ex[e].pc = "check2"
  /\ ex' = [ex EXCEPT ![e] =
              IF ctxDone
              THEN Finished(@, NilT, ctxErr)
              ELSE [@ EXCEPT !.pc = "wait",
                             !.timer = IF ex[e].next > 0
                                       THEN ex[e].next ELSE 0]]
  /\ UNCHANGED <<ctxDone, ctxErr, b>>
  /\ SharedIdle

\* retry.go 105-108: the wait ends with ctx.Done()
SharedWaitCtxDone(e) ==
  /\ ex[e].pc = "wait"
  /\ ctxDone
  /\ ex' = [ex EXCEPT ![e] = Finished(@, NilT, ctxErr)]
  /\ UNCHANGED <<ctxDone, ctxErr, b>>
  /\ SharedIdle

\* retry.go 109-111: the wait ends with t.C
SharedWaitElapsed(e) ==
  /\ ex[e].pc = "wait"
  /\ ex[e].timer = 0
  /\ ex' = [ex EXCEPT ![e].retries = @ + 1, ![e].timer = 0 - 1,
                      ![e].pc = "top"]
  /\ UNCHANGED <<ctxDone, ctxErr, b>>
  /\ SharedIdle

NextShared ==
  \/ SharedCancel
  \/ \E e \in DOMAIN ex : SharedTick(e)
  \/ \E e \in DOMAIN ex : SharedCheckTop(e)
  \/ \E e \in DOMAIN ex : SharedInvoke(e)
  \/ \E e \in DOMAIN ex, err \in SharedErrors, ans \in InnerAnswers(b) :
       SharedOpReturn(e, err, ans)
  \/ \E e \in DOMAIN ex : SharedCheckBeforeTimer(e)
  \/ \E e \in DOMAIN ex : SharedWaitCtxDone(e)
  \/ \E e \in DOMAIN ex : SharedWaitElapsed(e)

SpecShared == InitShared /\ [][NextShared]_vars

\* ---------------------------------------------------------------- middleware
\* repeat.go: the backoffs that wrap another backoff.  In this file Next
\* returns one duration and a negative one means stop (IsStopped); the error
\* that is handed through plays no part here.

\* the largest parameter (jitter, cap, timeout) a middleware is built with
MaxParam == 3

\* the latest reading of the clock
MaxNow == 4

\* the percentages WithJitterPercent is built with
Percents == {0, 50, 100, 101}

\* Go's integer conversion of a quotient: truncation towards zero
TruncDiv(x, y) == IF x >= 0 THEN x \div y ELSE 0 - ((0 - x) \div y)

\* repeat.go 98-100
WithJitter(j) == IF j < 0 THEN "panic" ELSE "ok"

\* repeat.go 127-129: j < 0 && j > 100 holds of no j
WithJitterPercent(j) == IF j < 0 /\ j > 100 THEN "panic" ELSE "ok"

\* repeat.go 108, 110: the argument of rand.Int63n, from the duration j
JitterRange(j, addOnly) == IF addOnly THEN j ELSE WrapDuration(j * 2)

\* repeat.go 138, 141: the argument of rand.Int63n, from the percentage j
\* (an int64 that the percentages used here do not overflow)
PercentRange(j, addOnly) == IF addOnly THEN j ELSE j * 2

\* rand.Int63n did not return: it panicked
Panicked == 0 - 1

\* math/rand Int63n(n) (backoff_test.go 383-385): the values it may return;
\* it panics when n <= 0
Int63n(n) == IF n <= 0 THEN {Panicked} ELSE 0..(n - 1)

\* mutant: the jitter is put on a stop too
JitterNext_NoStopCheck(j, addOnly, delay, r) ==
  IF addOnly THEN WrapDuration(delay + r)
  ELSE LET d == WrapDuration(delay + (r - j))
       IN  IF d < 0 THEN 0 ELSE d

\* repeat.go 101-117: the closure WithJitter returns, for the delay of
\* next.Next and the value r of rand.Int63n
JitterNext(j, addOnly, delay, r) ==
  IF IsStopped(delay) THEN Stop
  ELSE IF addOnly THEN WrapDuration(delay + r)
  ELSE LET d == WrapDuration(delay + (r - j))
       IN  IF d < 0 THEN 0 ELSE d

\* repeat.go 130-150: the closure WithJitterPercent returns; the product is
\* taken on the exact values and truncated as the conversion to
\* time.Duration truncates it
JitterPercentNext(j, addOnly, delay, r) ==
  IF IsStopped(delay) THEN Stop
  ELSE LET top == IF addOnly THEN r ELSE r - j
           d   == TruncDiv(delay * (100 + top), 100)
       IN  IF d < 0 THEN 0 ELSE d

\* mutant: only a delay above the cap is replaced
CappedNext_OnlyAbove(cap, delay) ==
  IF IsStopped(delay) THEN Stop
  ELSE IF delay > cap THEN cap
  ELSE delay

\* repeat.go 176-186: the closure WithCappedDuration returns
CappedNext(cap, delay) ==
  IF IsStopped(delay) THEN Stop
  ELSE IF delay <= 0 \/ delay > cap THEN cap
  ELSE delay

\* repeat.go 196: timeout - time.Since(start)
Remaining(timeout, start, t) == timeout - (t - start)

\* mutant: the wrapped delay is returned whatever time is left
MaxDurationNext_NoClamp(diff, delay) ==
  IF IsStopped(delay) THEN Stop
  ELSE delay

\* repeat.go 201-209: the closure WithMaxDuration returns once diff > 0
MaxDurationNext(diff, delay) ==
  IF IsStopped(delay) THEN Stop
  ELSE IF delay <= 0 \/ delay > diff THEN diff
  ELSE delay

\* ---------------------------------------------------------------- wrapped chains
\* One caller builds a chain, a middleware around a backoff, and calls Next
\* on it again and again while the clock moves.

Middlewares ==
  { [mw |-> m, param |-> x, addOnly |-> a] :
      m \in {"capped", "maxduration", "jitter"},
      x \in (0 - 1)..MaxParam, a \in BOOLEAN }
  \cup { [mw |-> "jitterpercent", param |-> x, addOnly |-> a] :
           x \in Percents, a \in BOOLEAN }
  \cup { [mw |-> m, param |-> 0, addOnly |-> FALSE] :
           m \in {"none", "retryable"} }

\* the chains: one of these middlewares over a constant or a
\* caller-supplied backoff, or none of them over any backoff with or without
\* WithMaxRetries
MwChains ==
  { [useMax |-> u, max |-> m, attempt |-> 0, kind |-> k, base |-> d,
     n |-> 0, pair |-> FibonacciInit(d), ver |-> 0,
     mw |-> w.mw, param |-> w.param, addOnly |-> w.addOnly, start |-> 0] :
      u \in BOOLEAN, m \in 0..MaxK,
      k \in {"constant", "func", "exponential", "fibonacci"},
      d \in 1..MaxDelay, w \in Middlewares }

\* the Next calls made on a chain: the jitters keep no state from one call
\* to the next, the others do
MwCalls(bk) ==
  IF bk.mw = "jitterpercent" THEN 1
  ELSE IF bk.mw \in {"jitter", "capped", "retryable"} THEN 2
  ELSE IF bk.mw = "maxduration" \/ bk.kind = "func" THEN 3
  ELSE MaxNexts

InitM ==
  /\ api = "Next"
  /\ b \in { x \in MwChains :
               /\ ~x.useMax => x.max = 0
               /\ x.kind = "func" => x.base = 1
               /\ x.mw # "none" => ~x.useMax
               /\ x.mw \notin {"none", "maxduration", "retryable"} =>
                    x.kind \in {"constant", "func"}
               /\ x.mw \in {"maxduration", "retryable"} =>
                    x.kind \in {"constant", "func", "exponential"}
               /\ (x.mw \in {"capped", "maxduration"}) => ~x.addOnly }
  /\ ctxDone = FALSE /\ ctxErr = Nil /\ cancelAt = Never
  /\ pc = "top"
  /\ retries = 0
  /\ next = 0
  /\ timer = 0 - 1
  /\ opCtx = ParentCtx
  /\ result = [v |-> NilT, err |-> Nil]
  /\ log = <<>>
  /\ rets = <<>>
  /\ made = "new"
  /\ th = << Thread(MwCalls(b)) >>
  /\ outs = <<>>
  /\ ex = <<>>
  /\ now = 0
  /\ val = NilT

MwIdle == UNCHANGED <<api, ctxDone, ctxErr, pc, retries, next, timer, opCtx,
                      result, log, rets, cancelAt, ex, val>>

\* time passes; of these chains only WithMaxDuration reads the clock
MwTick ==
  /\ b.mw = "maxduration"
  /\ now < MaxNow
  /\ now' = now + 1
  /\ UNCHANGED <<b, made, th, outs>>
  /\ MwIdle

\* the chain is built: WithJitter and WithJitterPercent look at their
\* parameter, WithMaxDuration reads the clock (repeat.go 193), the others
\* check nothing
MwConstruct ==
  /\ made = "new"
  /\ made' = IF b.mw = "jitter" THEN WithJitter(b.param)
             ELSE IF b.mw = "jitterpercent" THEN WithJitterPercent(b.param)
             ELSE "ok"
  /\ b' = [b EXCEPT !.start = now]
  /\ UNCHANGED <<th, outs, now>>
  /\ MwIdle

\* next.Next of the middleware: the wrapped backoff, through WithMaxRetries
\* when the chain has it; ans is what a caller-supplied backoff answers
WrappedNext(bk, ans) ==
  LET in == IF bk.kind = "func" THEN [ans |-> ans, b |-> bk]
            ELSE InnerNext(bk)
      r  == IF bk.useMax
            THEN MaxRetriesNext(in.b, in.ans)
            ELSE [delay |-> in.ans.delay, stop |-> in.ans.stop,
                  b |-> in.b, inner |-> TRUE]
  IN  IF r.inner THEN r ELSE [r EXCEPT !.b = bk]

\* what the middleware makes of the wrapped delay and the random value r
MwDelay(bk, delay, r) ==
  IF bk.mw = "capped" THEN CappedNext(bk.param, delay)
  ELSE IF bk.mw = "maxduration"
  THEN MaxDurationNext(Remaining(bk.param, bk.start, now), delay)
  ELSE IF bk.mw = "jitter" THEN JitterNext(bk.param, bk.addOnly, delay, r)
  ELSE IF bk.mw = "jitterpercent"
  THEN JitterPercentNext(bk.param, bk.addOnly, delay, r)
  ELSE delay

\* the values rand.Int63n may give the middleware
Draws(bk) ==
  IF bk.mw = "jitter" THEN Int63n(JitterRange(bk.param, bk.addOnly))
  ELSE IF bk.mw = "jitterpercent"
  THEN Int63n(PercentRange(bk.param, bk.addOnly))
  ELSE {0}

\* the errors a caller hands to Next: WithRetryable looks at the error, the
\* others hand it on as it is
Errs(bk) == IF bk.mw = "retryable" THEN OpErrors ELSE {Nil}

\* mutant: the error is handed to the wrapped backoff as it came
RetryableNext_PassAll(err) ==
  LET rerr == AsRetryable(err)
  IN  IF rerr = Nil THEN [call |-> FALSE, err |-> err]
      ELSE [call |-> TRUE, err |-> err]

\* repeat.go 242-246: without a marker stop and the error as given, else
\* next.Next with what the marker holds
RetryableNext(err) ==
  LET rerr == AsRetryable(err)
  IN  IF rerr = Nil THEN [call |-> FALSE, err |-> err]
      ELSE [call |-> TRUE, err |-> Unwrap(rerr)]

\* history: what a call did besides its delay: the chain after it, whether
\* the innermost backoff was called, the error given, the error handed to
\* next.Next and the error returned
Did(nb, inner, err, passed, rerr) ==
  [b1 |-> nb, inner |-> inner, err |-> err, passed |-> passed,
   rerr |-> rerr]

\* history: one completed (or panicked) call, or a reset: the delay it
\* returned, whether next.Next was called and the delay d that gave, the
\* random value r, the time since the chain was built or reset, the
\* reading of the clock, the chain before the call and what the call did
Out(op, delay, called, d, r, x) ==
  [t |-> 1, op |-> op, delay |-> delay, stop |-> IsStopped(delay),
   called |-> called, d |-> d, r |-> r, since |-> now - b.start,
   at |-> now, b0 |-> b, b1 |-> x.b1, inner |-> x.inner, err |-> x.err,
   passed |-> x.passed, rerr |-> x.rerr]

\* one Next call on the chain.  WithMaxDuration returns Stop without calling
\* next.Next when no time is left (repeat.go 196-199) and WithRetryable when
\* the error has no marker (repeat.go 243-245); the jitters call
\* rand.Int63n only for a delay that is not a stop, and its panic ends the
\* caller; every middleware returns the error next.Next returned
MwNext(ans, r, err) ==
  /\ made = "ok"
  /\ th[1].left > 0
  /\ LET w == WrappedNext(b, ans)
         q == IF b.mw = "retryable" THEN RetryableNext(err)
              ELSE [call |-> TRUE, err |-> err]
     IN
     IF \/ b.mw = "maxduration" /\ Remaining(b.param, b.start, now) <= 0
        \/ ~q.call
     THEN /\ outs' = Append(outs, Out("next", Stop, FALSE, Stop, 0,
                                      Did(b, FALSE, err, Nil, err)))
          /\ th' = [th EXCEPT ![1].left = @ - 1]
          /\ UNCHANGED b
     ELSE IF r = Panicked /\ ~IsStopped(w.delay)
     THEN /\ outs' = Append(outs, Out("panic", 0, TRUE, w.delay, 0,
                                      Did(w.b, w.inner, err, q.err, q.err)))
          /\ th' = [th EXCEPT ![1].left = 0]
          /\ b' = w.b
     ELSE /\ outs' = Append(outs, Out("next", MwDelay(b, w.delay, r), TRUE,
                                      w.delay, IF r = Panicked THEN 0 ELSE r,
                                      Did(w.b, w.inner, err, q.err, q.err)))
          /\ th' = [th EXCEPT ![1].left = @ - 1]
          /\ b' = w.b
  /\ UNCHANGED <<made, now>>
  /\ MwIdle

\* the chain with its counters as they were when it was built and its
\* clock started at t
ResetChain(bk, t) ==
  [bk EXCEPT !.attempt = 0, !.n = 0, !.pair = FibonacciInit(bk.base),
             !.ver = 0, !.start = t]

\* Reset() on the chain, once, between two calls; the jitters keep nothing
\* that a reset could restore
Reset ==
  /\ made = "ok"
  /\ b.mw \notin {"jitter", "jitterpercent"}
  /\ outs # <<>>
  /\ \A i \in DOMAIN outs : outs[i].op = "next"
  /\ b' = ResetChain(b, now)
  /\ outs' = Append(outs, Out("reset", 0, FALSE, 0, 0,
                              Did(ResetChain(b, now), FALSE, Nil, Nil, Nil)))
  /\ th' = [th EXCEPT ![1].left = IF b.mw = "maxduration" THEN 1
                                  ELSE MwCalls(b)]
  /\ UNCHANGED <<made, now>>
  /\ MwIdle

NextM ==
  \/ MwTick
  \/ MwConstruct
  \/ \E ans \in InnerAnswers(b), r \in Draws(b), err \in Errs(b) :
       MwNext(ans, r, err)
  \/ Reset

SpecM == InitM /\ [][NextM]_vars

\* ---------------------------------------------------------------- properties
Last(s) == s[Len(s)]

\* the events logged after the context was cancelled
AfterCancel == SubSeq(log, cancelAt.at + 1, Len(log))

Has(s, ev) == \E i \in DOMAIN s : s[i] = ev

\* err carries a RetryableError marker somewhere on its chain
IsMarked(err) == \E i \in DOMAIN err : err[i] = "R"

\* what was passed to RetryableError to make the outermost marker of err
CauseOf(err) ==
  LET i == CHOOSE j \in DOMAIN err :
             err[j] = "R" /\ \A k \in 1..(j - 1) : err[k] # "R"
  IN SubSeq(err, i + 1, Len(err))

\* C1: if the context is already cancelled when Do (or DoValue) is called,
\* the operation is never invoked and the call returns the context's error,
\* whatever the backoff and the operation are.
C1_CancelledBeforeCall ==
  cancelAt.pc = "before" =>
    /\ calls = 0
    /\ nexts = 0
    /\ pc = "done" => result = [v |-> NilT, err |-> ctxErr]

C1_Witness ==
  /\ cancelAt.pc = "before"
  /\ pc = "done"
  /\ ctxErr \in CtxErrors

\* C2: when an invocation returns an error without a RetryableError marker,
\* Do returns exactly that error: the operation is not invoked again and the
\* backoff is not asked for that failure (Next was called once for each
\* earlier invocation only); a first invocation failing so is the only one.
C2_NotRetryableReturned ==
  (rets # <<>> /\ Last(rets) # Nil /\ ~IsMarked(Last(rets))) =>
    /\ pc = "done"
    /\ result = [v |-> NilT, err |-> Last(rets)]
    /\ calls = Len(rets)
    /\ nexts = Len(rets) - 1
    /\ Last(log) = "ret"

C2_Witness ==
  /\ pc = "done"
  /\ Len(rets) = 2
  /\ rets[1] = RetryableError(<<"e1">>)
  /\ rets[2] = <<"e2">>
  /\ result.err = <<"e2">>

\* C3: as soon as an invocation returns no error, Do returns nil: no further
\* invocation, no Next call and no wait follow the successful attempt.
C3_SuccessReturnsAtOnce ==
  (rets # <<>> /\ Last(rets) = Nil) =>
    /\ pc = "done"
    /\ result.err = Nil
    /\ calls = Len(rets)
    /\ nexts = Len(rets) - 1
    /\ armed = Len(rets) - 1
    /\ Last(log) = "ret"

C3_Witness ==
  /\ pc = "done"
  /\ Len(rets) = 2
  /\ Last(rets) = Nil
  /\ result.err = Nil

\* the operation has returned a RetryableError every time so far
AlwaysRetryable == \A i \in DOMAIN rets : rets[i] \in
                      { RetryableError(e) : e \in PlainErrors }

\* C4: with a fresh MaxRetries(k) over a backoff that never stops, a context
\* that is never cancelled and an operation that always returns a
\* RetryableError, Do invokes the operation exactly k+1 times and then
\* returns a non-nil error.
C4_MaxRetriesCalls ==
  (b.useMax /\ b.kind = "constant" /\ ~ctxDone /\ AlwaysRetryable) =>
    /\ calls <= b.max + 1
    /\ pc = "done" => (calls = b.max + 1 /\ result.err # Nil)

C4_Witness ==
  /\ b.useMax /\ b.kind = "constant" /\ ~ctxDone /\ AlwaysRetryable
  /\ pc = "done"
  /\ b.max = MaxK
  /\ calls = MaxK + 1

\* C5: when the backoff signals stop after a retryable failure, Do returns
\* the cause that was passed to RetryableError in the error of the most
\* recent invocation: not the wrapper, not an earlier attempt's cause.
C5_StopReturnsCause ==
  (pc = "done" /\ log # <<>> /\ Last(log) = "next") =>
    /\ IsMarked(Last(rets))
    /\ result = [v |-> NilT, err |-> CauseOf(Last(rets))]
    /\ result.err # Last(rets)

C5_Witness ==
  /\ pc = "done"
  /\ Last(log) = "next"
  /\ Len(rets) = 2
  /\ rets[1] = RetryableError(<<"e1">>)
  /\ rets[2] = RetryableError(<<"e2">>)
  /\ result.err = <<"e2">>

\* the events DoValue may log once the context is cancelled while it stands
\* between the backoff's answer and the end of the wait
CancelTails(at) ==
  IF at = "check2" THEN { <<>>, <<"ctx">> }
  ELSE { <<>>, <<"ctx">>, <<"elapsed">>, <<"elapsed", "ctx">> }

\* C6: a cancellation signalled after the backoff answered with a delay,
\* before the timer is armed or during the wait, makes Do return the
\* context's error without invoking the operation or asking the backoff
\* again; the return does not need the timer (it is possible as soon as the
\* context is done), and no timer is ever armed once the context is done.
C6_CancelBeatsTimer ==
  /\ ctxDone => ~Has(AfterCancel, "arm")
  /\ (pc = "wait" /\ ctxDone) => ENABLED WaitCtxDone
  /\ cancelAt.pc \in {"check2", "wait"} =>
       /\ AfterCancel \in CancelTails(cancelAt.pc)
       /\ pc = "done" => result = [v |-> NilT, err |-> ctxErr]

C6_Witness ==
  /\ cancelAt.pc = "wait"
  /\ pc = "done"
  /\ timer > 0
  /\ result.err = ctxErr
  /\ Last(rets) = RetryableError(<<"e1">>)

\* the number of the invocation that was in flight when the context was
\* cancelled
InFlightAtCancel ==
  Cardinality({ i \in 1..cancelAt.at : log[i] = "call" })

\* C7 as stated: if the context is cancelled while an invocation is in flight
\* and that invocation returns an error, Do returns the context's error.
C7_Original ==
  (cancelAt.pc = "inflight" /\ pc = "done" /\ Last(rets) # Nil) =>
    result.err = ctxErr

\* C7, amended: if the context is cancelled while an invocation is in flight
\* and that invocation returns an error, Do returns the context's error only
\* when the error is retryable and the backoff answers with a delay (and
\* then without arming the timer or invoking the operation again); an error
\* without the marker is returned as it is, and when the backoff signals stop
\* the cause of the retryable error is returned.
C7_CancelInFlight ==
  (cancelAt.pc = "inflight" /\ pc = "done" /\ Last(rets) # Nil) =>
    /\ Len(rets) = InFlightAtCancel
    /\ IF ~IsMarked(Last(rets))
       THEN AfterCancel = <<"ret">> /\ result.err = Last(rets)
       ELSE IF Last(log) = "next"
       THEN AfterCancel = <<"ret", "next">>
            /\ result.err = CauseOf(Last(rets))
       ELSE AfterCancel = <<"ret", "next", "ctx">>
            /\ result.err = ctxErr

C7_Witness ==
  /\ cancelAt.pc = "inflight"
  /\ pc = "done"
  /\ Last(rets) = <<"e1">>
  /\ result.err = <<"e1">>
  /\ ctxErr \in CtxErrors

\* C8 as stated: no invocation begins after the context is cancelled.
C8_Original == ctxDone => ~Has(AfterCancel, "call")

\* C8, amended: at most one invocation begins after the context is
\* cancelled, and only when the cancellation fell between the check at the
\* head of the loop and the call that follows it; a cancellation at any
\* other point, a timer and a cancellation that are ready together included,
\* is followed by no invocation.
C8_NoCallAfterCancel ==
  ctxDone =>
    /\ Cardinality({ i \in DOMAIN AfterCancel : AfterCancel[i] = "call" }) <= 1
    /\ cancelAt.pc # "call" => ~Has(AfterCancel, "call")

C8_Witness ==
  /\ cancelAt.pc = "call"
  /\ Has(AfterCancel, "call")
  /\ pc = "done"
  /\ result.err = ctxErr

\* C9: the retry count the operation sees through GetRetryCount is 0 on the
\* first invocation and n-1 on the n-th: it is the number of waits that ran
\* to the end of the timer, and nothing else (a failure, a backoff query, a
\* cancelled wait) increments it.
C9_RetryCount ==
  /\ retries = elapsed
  /\ pc = "inflight" =>
       /\ GetRetryCount(opCtx) = calls - 1
       /\ GetRetryCount(opCtx) = elapsed
  /\ calls = 0 => GetRetryCount(opCtx) = 0

C9_Witness ==
  /\ pc = "inflight"
  /\ calls = 3
  /\ GetRetryCount(opCtx) = 2

\* the number of returns among the first i events
RetsUpTo(i) == Cardinality({ j \in 1..i : log[j] = "ret" })

\* C10: invocations of one Do call never overlap, and between two
\* consecutive invocations there is exactly one Next call followed by
\* exactly one wait that ran to the end of the timer; Next is called only
\* right after an invocation returned an error carrying the marker.
C10_Sequential ==
  /\ calls = Len(rets) + (IF pc = "inflight" THEN 1 ELSE 0)
  /\ \A i \in DOMAIN log :
       /\ log[i] = "call" =>
            \/ i = 1
            \/ /\ i >= 6
               /\ SubSeq(log, i - 5, i - 1) =
                    <<"call", "ret", "next", "arm", "elapsed">>
       /\ log[i] = "next" =>
            /\ i > 1
            /\ log[i - 1] = "ret"
            /\ IsMarked(rets[RetsUpTo(i)])

C10_Witness ==
  /\ pc = "inflight"
  /\ calls = 3
  /\ nexts = 2
  /\ elapsed = 2

\* C11: Repeat has Do's polarity inverted.  It invokes the operation again
\* only after an invocation that returned no error, with one Next call and
\* one elapsed wait in between; the first error of the operation is returned
\* unchanged (a RetryableError is not unwrapped) without asking the backoff;
\* and when the backoff signals stop after a success Repeat returns nil.
C11_RepeatPolarity ==
  /\ \A i \in DOMAIN rets : i < Len(rets) => rets[i] = Nil
  /\ (rets # <<>> /\ Last(rets) # Nil) =>
       /\ pc = "done"
       /\ result.err = Last(rets)
       /\ nexts = Len(rets) - 1
       /\ Last(log) = "ret"
  /\ (pc = "done" /\ log # <<>> /\ Last(log) = "next") =>
       /\ Last(rets) = Nil
       /\ result.err = Nil
  /\ \A i \in DOMAIN log :
       log[i] = "call" =>
         \/ i = 1
         \/ /\ i >= 6
            /\ SubSeq(log, i - 5, i - 1) =
                 <<"call", "ret", "next", "arm", "elapsed">>

C11_Witness ==
  /\ api = "Repeat"
  /\ pc = "done"
  /\ rets = <<Nil, Nil, RetryableError(<<"e1">>)>>
  /\ result.err = RetryableError(<<"e1">>)

C11_WitnessStop ==
  /\ api = "Repeat"
  /\ pc = "done"
  /\ rets = <<Nil, Nil>>
  /\ Last(log) = "next"

\* ---------------------------------------------------------------- Next calls
\* one thread makes all the calls, one after the other
Sequential == DOMAIN th = {1}

\* no Next call is in progress
Quiet == \A t \in DOMAIN th : th[t].pc = "idle"

\* the Fibonacci state after i calls made one after the other
RECURSIVE FibPairAfter(_, _)
FibPairAfter(base, i) ==
  IF i = 0 THEN FibonacciInit(base)
  ELSE FibonacciNextState(FibPairAfter(base, i - 1))

\* the delay of the i-th of the calls made one after the other on the
\* innermost backoff
SeqDelay(bk, i) ==
  IF bk.kind = "constant" THEN bk.base
  ELSE IF bk.kind = "exponential" THEN ExponentialAnswer(bk.base, i).delay
  ELSE FibPairAfter(bk.base, i)[2]

\* 1, 1, 2, 3, 5, 8, ...
RECURSIVE ClassicFib(_)
ClassicFib(i) == IF i <= 2 THEN 1 ELSE ClassicFib(i - 1) + ClassicFib(i - 2)

\* C12: the n-th of the Next calls made one after the other on an
\* Exponential backoff with base b returns b * 2^(n-1), as long as that
\* value does not exceed the largest duration.
C12_ExponentialSequence ==
  (Sequential /\ ~b.useMax /\ b.kind = "exponential") =>
    \A i \in DOMAIN outs :
      b.base * 2^(i - 1) <= MaxDuration =>
        outs[i].delay = b.base * 2^(i - 1)

C12_Witness ==
  /\ Sequential /\ ~b.useMax /\ b.kind = "exponential"
  /\ b.base = 3
  /\ Len(outs) >= 4
  /\ outs[4].delay = 24

\* C13: once b * 2^(n-1) exceeds the largest duration, Exponential's Next
\* returns exactly the largest duration, on that call and on every later one.
C13_Original ==
  (Sequential /\ ~b.useMax /\ b.kind = "exponential") =>
    \A i \in DOMAIN outs :
      b.base * 2^(i - 1) > MaxDuration => outs[i].delay = MaxDuration

\* C14: the Next calls made one after the other on a Fibonacci backoff with
\* base b return b, b, 2b, 3b, 5b, 8b, ...
C14_Original ==
  (Sequential /\ ~b.useMax /\ b.kind = "fibonacci") =>
    \A i \in DOMAIN outs :
      b.base * ClassicFib(i) <= MaxDuration =>
        outs[i].delay = b.base * ClassicFib(i)

C16_Original ==
  (Sequential /\ ~b.useMax /\ b.kind = "fibonacci") =>
    \A i \in DOMAIN outs :
      /\ outs[i].delay > 0
      /\ (i >= 3 /\ outs[i - 1].delay + outs[i - 2].delay > MaxDuration) =>
           outs[i].delay = MaxDuration

\* how often the delay v was returned
Returned(v) == Cardinality({ i \in DOMAIN outs : outs[i].delay = v })

\* how often the delay v is among the first m delays of the calls made one
\* after the other
Expected(v, m) == Cardinality({ i \in 1..m : SeqDelay(b, i) = v })

\* the Next calls that have taken their place in the order of the calls
Linearized == IF b.kind = "exponential" THEN b.n ELSE b.ver

\* C17: when Next calls are made concurrently on one Exponential or
\* Fibonacci backoff, the delays returned are, as a multiset, the first
\* delays of the sequence of calls made one after the other: none is
\* returned twice and none is skipped.
C17_ConcurrentMultiset ==
  (~b.useMax /\ b.kind \in {"exponential", "fibonacci"}) =>
    /\ \A i \in DOMAIN outs :
         Returned(outs[i].delay) <= Expected(outs[i].delay, Linearized)
    /\ Quiet =>
         /\ Linearized = Len(outs)
         /\ \A i \in 1..Len(outs) :
              Returned(SeqDelay(b, i)) = Expected(SeqDelay(b, i), Len(outs))

C17_Witness ==
  /\ ~b.useMax /\ b.kind = "fibonacci"
  /\ Cardinality(DOMAIN th) = MaxThreads
  /\ Quiet
  /\ \A t \in DOMAIN th : th[t].left = 0
  /\ \E t \in DOMAIN th : th[t].retried
  /\ Len(outs) = MaxThreads

\* C18: Constant, Exponential and Fibonacci never signal stop, however many
\* calls are made and also after the delay has overflowed; Constant returns
\* its base on every call.
C18_BaseNeverStops ==
  ~b.useMax =>
    \A i \in DOMAIN outs :
      /\ ~outs[i].stop
      /\ b.kind = "constant" => outs[i].delay = b.base

C18_Witness ==
  /\ ~b.useMax /\ b.kind = "exponential"
  /\ \E i \in DOMAIN outs : outs[i].delay < 0 /\ ~outs[i].stop

\* C19: NewConstant, NewExponential and NewFibonacci each reject base <= 0
\* by returning an error, without panicking, and accept every base > 0.
C19_Original ==
  made # "new" => made = (IF b.base <= 0 THEN "error" ELSE "ok")

\* C20: on MaxRetries(k) over a backoff that never stops, the first k of the
\* Next calls made one after the other return the wrapped backoff's delays
\* without stop, and the (k+1)-th call and every later one signal stop.
C20_MaxRetriesLimit ==
  (Sequential /\ b.useMax) =>
    \A i \in DOMAIN outs :
      IF i <= b.max
      THEN ~outs[i].stop /\ outs[i].delay = SeqDelay(b, i)
      ELSE outs[i].stop

C20_Witness ==
  /\ Sequential /\ b.useMax
  /\ b.kind = "fibonacci"
  /\ b.max = MaxK
  /\ Len(outs) = MaxK + 2
  /\ ~outs[MaxK].stop
  /\ outs[MaxK + 1].stop /\ outs[MaxK + 2].stop

\* ---------------------------------------------------------------- shared backoff
Min(x, y) == IF x <= y THEN x ELSE y

\* the sum of a history count over the Do calls 1..n
RECURSIVE TotalUpTo(_, _)
TotalUpTo(field, n) ==
  IF n = 0 THEN 0 ELSE ex[n][field] + TotalUpTo(field, n - 1)

Total(field) == TotalUpTo(field, Cardinality(DOMAIN ex))

AllDone == \A e \in DOMAIN ex : ex[e].pc = "done"

\* every operation of every call has failed with a RetryableError
AllRetryable ==
  \A e \in DOMAIN ex : \A i \in DOMAIN ex[e].rets : IsMarked(ex[e].rets[i])

\* C21: when concurrent Do calls share one MaxRetries(k) over a backoff that
\* never stops, in every interleaving exactly min(k, number of Next calls)
\* of the Next calls return without stop and all the others say stop; with
\* two Do calls whose operations always fail retryably and no cancellation,
\* the operations are invoked k+2 times in total.
C21_SharedMaxRetries ==
  b.kind = "constant" =>
    /\ Total("granted") = Min(b.max, Total("granted") + Total("stopped"))
    /\ b.attempt = Total("granted")
    /\ (AllDone /\ ~ctxDone /\ AllRetryable) =>
         Total("calls") = b.max + Cardinality(DOMAIN ex)

C21_Witness ==
  /\ b.kind = "constant" /\ b.max = MaxK
  /\ AllDone /\ ~ctxDone /\ AllRetryable
  /\ \A e \in DOMAIN ex : ex[e].granted >= 1 /\ ex[e].stopped = 1
  /\ Total("calls") = MaxK + 2

\* C22: the state of a backoff lasts beyond one Do call: a Do call that
\* begins when the earlier one has returned and the MaxRetries(k) backoff
\* has granted its k retries, and whose operation fails retryably, invokes
\* the operation once and returns that failure's cause without a retry.
C22_StatePersists ==
  \A e \in DOMAIN ex :
    (/\ ex[e].reused /\ ex[e].attempt0 >= b.max
     /\ ex[e].rets # <<>> /\ IsMarked(ex[e].rets[1])) =>
      /\ ex[e].pc = "done"
      /\ ex[e].calls = 1
      /\ ex[e].granted = 0
      /\ ex[e].result = [v |-> NilT, err |-> CauseOf(ex[e].rets[1])]

C22_Witness ==
  /\ b.max = MaxK
  /\ ex[1].pc = "done" /\ ex[1].granted = MaxK /\ ex[1].stopped = 1
  /\ ex[2].reused /\ ex[2].attempt0 = MaxK
  /\ ex[2].pc = "done" /\ ex[2].calls = 1
  /\ ex[2].rets = << RetryableError(<<"e2">>) >>
  /\ ex[2].result.err = <<"e2">>

\* ---------------------------------------------------------------- wrapped chains
\* the completed Next calls for which the middleware called next.Next and
\* got a delay that is not a stop
Passed == { i \in DOMAIN outs : /\ outs[i].op = "next"
                                /\ outs[i].called
                                /\ ~IsStopped(outs[i].d) }

SameRun(i, j) == \A k \in i..j : outs[k].op # "reset"

\* C24: MaxDuration(timeout) measures time from its construction: a Next
\* call made when timeout or more has passed says stop; an earlier one, when
\* the wrapped backoff gives a delay that is no stop, returns a delay d that
\* is no stop with 0 < d <= timeout - elapsed, the wrapped delay if that
\* fits and the time left otherwise; once it has said stop it says stop on
\* every later call (over a wrapped backoff that does not stop).
C24_MaxDuration ==
  b.mw = "maxduration" =>
    /\ \A i \in DOMAIN outs :
         (outs[i].op = "next" /\ outs[i].since >= b.param) => outs[i].stop
    /\ \A i \in Passed :
         LET left == b.param - outs[i].since
             d    == outs[i].d
         IN  /\ outs[i].since < b.param
             /\ ~outs[i].stop
             /\ 0 < outs[i].delay /\ outs[i].delay <= left
             /\ outs[i].delay = (IF 0 < d /\ d <= left THEN d ELSE left)
    /\ \A i \in DOMAIN outs : \A j \in DOMAIN outs :
         (/\ i < j /\ SameRun(i, j)
          /\ outs[i].stop
          /\ \A k \in i..j : outs[k].called => ~IsStopped(outs[k].d)) =>
           outs[j].stop

C24_Witness ==
  /\ b.mw = "maxduration" /\ b.param = 3 /\ b.kind = "constant" /\ b.base = 2
  /\ Len(outs) = 3
  /\ outs[1].since = 0 /\ outs[1].delay = 2
  /\ outs[2].since = 2 /\ outs[2].delay = 1
  /\ outs[3].since = 3 /\ outs[3].stop

\* the calls, completed or panicked, in which the middleware got from
\* next.Next a delay that is no stop
Jittered == { i \in DOMAIN outs : /\ outs[i].op \in {"next", "panic"}
                                  /\ outs[i].called
                                  /\ ~IsStopped(outs[i].d) }

Max(x, y) == IF x >= y THEN x ELSE y

\* C25: whatever the random source gives, Jitter(j, addOnly) over a wrapped
\* delay d that is no stop returns a delay in [max(0, d - j), d + j] when
\* addOnly is false and in [d, d + j] when it is true, never a negative one
\* and never a stop.
C25_Original ==
  b.mw = "jitter" =>
    \A i \in Jittered :
      LET d == outs[i].d
          j == b.param
      IN  /\ outs[i].op = "next"
          /\ outs[i].delay >= (IF b.addOnly THEN d ELSE Max(0, d - j))
          /\ outs[i].delay <= d + j
          /\ outs[i].delay >= 0
          /\ ~outs[i].stop

\* C26: whatever the random source gives, JitterPercent(p, addOnly) over a
\* wrapped delay d that is no stop returns a delay in
\* [d*(1 - p/100), d*(1 + p/100)] when addOnly is false and in
\* [d, d*(1 + p/100)] when it is true (the ends as whole durations), never
\* a negative one.
C26_Original ==
  b.mw = "jitterpercent" =>
    \A i \in Jittered :
      LET d == outs[i].d
          p == b.param
      IN  /\ outs[i].op = "next"
          /\ outs[i].delay >= (IF b.addOnly THEN d
                               ELSE Max(0, TruncDiv(d * (100 - p), 100)))
          /\ outs[i].delay <= TruncDiv(d * (100 + p), 100)
          /\ outs[i].delay >= 0

\* C27: WithJitter panics for every j < 0 and WithJitterPercent panics for
\* every percentage outside [0, 100]; no middleware is returned then.
C27_Original ==
  made # "new" =>
    /\ (b.mw = "jitter" /\ b.param < 0) => made = "panic"
    /\ (b.mw = "jitterpercent" /\ (b.param < 0 \/ b.param > 100)) =>
         made = "panic"

\* C28: for every parameter a constructor accepts, j = 0 and 0 percent
\* among them, every Next call on the backoff it returned completes with a
\* delay or a stop and does not panic.
C28_Original ==
  made = "ok" => \A i \in DOMAIN outs : outs[i].op # "panic"

\* where Reset was called among the calls; 0 when it was not
ResetAt ==
  IF \E i \in DOMAIN outs : outs[i].op = "reset"
  THEN CHOOSE i \in DOMAIN outs : outs[i].op = "reset"
  ELSE 0

\* the chain answers by its own state alone: no caller-supplied backoff, no
\* clock
Deterministic == b.kind # "func" /\ b.mw \in {"none", "capped"}

C29_WitnessBudget ==
  /\ b.mw = "maxduration" /\ b.param = 2
  /\ ResetAt = 2
  /\ outs[1].stop /\ ~outs[1].called
  /\ Len(outs) = 3
  /\ ~outs[3].stop

\* ---------------------------------------------------------------- the marker
\* the errors RetryableError is applied to in the operations' results
Causes == PlainErrors

\* C30: RetryableError wraps one cause and Unwrap gives it back: for every
\* error e that is not nil, Unwrap of RetryableError(e) is e, and DoValue
\* finds RetryableError(e) retryable by errors.As: it asks the backoff, and
\* when the backoff says stop it returns e.
C30_RoundTrip ==
  \A i \in DOMAIN log :
    \A e \in Causes :
      (log[i] = "ret" /\ rets[RetsUpTo(i)] = RetryableError(e)) =>
        /\ Unwrap(rets[RetsUpTo(i)]) = e
        /\ AsRetryable(rets[RetsUpTo(i)]) = RetryableError(e)
        /\ i < Len(log) /\ log[i + 1] = "next"
        /\ (pc = "done" /\ i + 1 = Len(log)) => result.err = e

C30_Witness ==
  /\ pc = "done"
  /\ rets = << RetryableError(<<"e1">>) >>
  /\ log = <<"call", "ret", "next">>
  /\ result.err = <<"e1">>

\* ---------------------------------------------------------------- DoValue and Do
\* the error DoValue returns, by what the call went through: the context's
\* error when it returned at a look at the context, else what the last
\* invocation's error makes it
ErrorOf ==
  IF Last(log) = "ctx" THEN ctxErr
  ELSE IF Last(rets) = Nil THEN Nil
  ELSE IF ~IsMarked(Last(rets)) THEN Last(rets)
  ELSE CauseOf(Last(rets))

\* C31: DoValue returns the value of the successful invocation with a nil
\* error and the zero value on every other outcome, whatever values the
\* failed invocations returned; Do goes the same way, with no value, and
\* returns the error DoValue returns for the same behaviour of the operation.
C31_ValueAndError ==
  pc = "done" =>
    /\ result.err = ErrorOf
    /\ IF result.err = Nil
       THEN /\ Last(log) = "ret" /\ Last(rets) = Nil
            /\ result.v = val
       ELSE result.v = NilT
    /\ api = "Do" => result.v = NilT

C31_Witness ==
  /\ api = "DoValue"
  /\ pc = "done"
  /\ rets = << RetryableError(<<"e1">>), Nil >>
  /\ val = 1
  /\ result = [v |-> 1, err |-> Nil]

\* a failed invocation's value is dropped
C31_WitnessDropped ==
  /\ api = "DoValue"
  /\ pc = "done"
  /\ rets = << <<"e1">> >>
  /\ val = 1
  /\ result = [v |-> NilT, err |-> <<"e1">>]

\* ---------------------------------------------------------------- middlewares and stops
\* C32: WithJitter, WithJitterPercent, WithCappedDuration and WithMaxDuration
\* hand a stop of the wrapped backoff on as it is: the call returns Stop,
\* with no jitter, cap or clamp on it, and does not panic.
C32_StopPassesThrough ==
  \A i \in DOMAIN outs :
    LET o == outs[i] IN
      ( /\ o.b0.mw \in {"jitter", "jitterpercent", "capped", "maxduration"}
        /\ o.called /\ IsStopped(o.d) )
      => (o.op = "next" /\ o.stop /\ o.delay = Stop)

C32_Witness ==
  \E i \in DOMAIN outs :
    /\ outs[i].b0.mw = "jitter" /\ outs[i].b0.param = 2
    /\ outs[i].b0.addOnly
    /\ outs[i].called /\ outs[i].d = Stop /\ outs[i].delay = Stop

\* the state of the backoff a WithMaxRetries or WithMaxDuration wraps
Wrapped(bk) == <<bk.n, bk.pair, bk.ver>>

\* the middleware of the chain has to stop by itself: the attempts are used
\* up, or no time is left
Forced(o) ==
  IF o.b0.useMax THEN o.b0.attempt >= o.b0.max
  ELSE o.since >= o.b0.param

\* C33: a WithMaxRetries or WithMaxDuration that stops by itself does not
\* call the wrapped backoff, whose state stays as it was; on every other
\* call it calls the wrapped backoff once, which advances by one step.
C33_ForcedStopFrame ==
  \A i \in DOMAIN outs :
    LET o == outs[i] IN
      (o.op = "next" /\ (o.b0.useMax \/ o.b0.mw = "maxduration"))
      => IF Forced(o)
         THEN /\ o.stop /\ ~o.inner
              /\ o.b0.mw = "maxduration" => ~o.called
              /\ Wrapped(o.b1) = Wrapped(o.b0)
         ELSE /\ o.inner
              /\ o.b0.kind # "func"
                   => Wrapped(o.b1) = Wrapped(InnerNext(o.b0).b)
              /\ o.b0.kind = "exponential" => o.b1.n = o.b0.n + 1
              /\ o.b0.kind = "fibonacci" => o.b1.ver = o.b0.ver + 1

C33_Witness ==
  \E i, j \in DOMAIN outs :
    /\ i < j
    /\ outs[i].b0.mw = "maxduration" /\ outs[i].b0.kind = "exponential"
    /\ ~Forced(outs[i]) /\ outs[i].b1.n = 1
    /\ outs[j].op = "next" /\ Forced(outs[j])
    /\ outs[j].b1.n = 1 /\ b.n = 1

C33_WitnessMaxRetries ==
  \E i, j \in DOMAIN outs :
    /\ i < j
    /\ outs[i].b0.useMax /\ outs[i].b0.kind = "fibonacci"
    /\ ~Forced(outs[i])
    /\ Forced(outs[j]) /\ outs[j].stop
    /\ outs[j].b1.ver = outs[j].b0.ver /\ outs[j].b0.ver > 0

\* C40: WithRetryable answers an error without a marker with Stop and the
\* error as given, without calling the wrapped backoff; an error with a
\* marker it answers with what the wrapped backoff's Next answers to the
\* cause the marker holds.
C40_WithRetryable ==
  \A i \in DOMAIN outs :
    LET o == outs[i] IN
      (o.op = "next" /\ o.b0.mw = "retryable")
      => IF IsMarked(o.err)
         THEN /\ o.called /\ o.inner
              /\ o.passed = CauseOf(o.err)
              /\ o.delay = o.d
              /\ o.rerr = o.passed
         ELSE /\ o.stop /\ o.delay = Stop
              /\ o.rerr = o.err
              /\ ~o.called /\ ~o.inner
              /\ o.b1 = o.b0

C40_Witness ==
  \E i, j \in DOMAIN outs :
    /\ i < j
    /\ outs[i].b0.mw = "retryable" /\ outs[i].b0.kind = "exponential"
    /\ outs[i].err = Wrap(RetryableError(<<"e1">>))
    /\ outs[i].passed = <<"e1">> /\ outs[i].called
    /\ outs[j].err = <<"e2">> /\ outs[j].rerr = <<"e2">>
    /\ outs[j].stop /\ outs[j].b1.n = 1

\* ---------------------------------------------------------------- markers
\* C36: an error with a RetryableError marker under a foreign wrapper is
\* retryable: DoValue asks the backoff, and when the backoff says stop it
\* returns the cause the marker holds, without the marker and without the
\* wrapper around it.
C36_MarkerInChain ==
  \A i \in DOMAIN log :
    \A e \in Causes :
      (log[i] = "ret" /\ rets[RetsUpTo(i)] = Wrap(RetryableError(e))) =>
        /\ i < Len(log) /\ log[i + 1] = "next"
        /\ (pc = "done" /\ i + 1 = Len(log)) => result.err = e

C36_Witness ==
  /\ pc = "done"
  /\ rets = << Wrap(RetryableError(<<"e1">>)) >>
  /\ log = <<"call", "ret", "next">>
  /\ result.err = <<"e1">>

\* C37: RetryableError(nil) is nil, and an invocation that returns it has
\* succeeded: DoValue returns a nil error at once, without asking the
\* backoff and without another invocation.
C37_RetryableNil ==
  /\ RetryableError(Nil) = Nil
  /\ \A i \in DOMAIN log :
       (log[i] = "ret" /\ rets[RetsUpTo(i)] = RetryableError(Nil)) =>
         /\ i = Len(log)
         /\ pc = "done" /\ result.err = Nil

C37_Witness ==
  /\ pc = "done"
  /\ b.useMax
  /\ rets = << RetryableError(Nil) >>
  /\ log = <<"call", "ret">>
  /\ result.err = Nil /\ b.attempt = 0

\* ---------------------------------------------------------------- Repeat and the context
\* C35: Repeat honours the context as Do does.  Called with a context that
\* is already cancelled it returns the context's error without invoking the
\* operation or asking the backoff; a cancellation after the backoff
\* answered, before the timer is armed or during the wait, makes it return
\* the context's error with no further invocation, and no timer is armed
\* once the context is done.
C35_RepeatCancellation ==
  /\ cancelAt.pc = "before" =>
       /\ calls = 0 /\ nexts = 0
       /\ pc = "done" => result.err = ctxErr
  /\ ctxDone => ~Has(AfterCancel, "arm")
  /\ cancelAt.pc \in {"check2", "wait"} =>
       /\ AfterCancel \in CancelTails(cancelAt.pc)
       /\ pc = "done" => result.err = ctxErr

C35_Witness ==
  /\ api = "Repeat"
  /\ cancelAt.pc = "wait"
  /\ pc = "done"
  /\ timer > 0
  /\ rets = <<Nil, Nil>>
  /\ result.err = ctxErr

C35_WitnessBefore ==
  /\ api = "Repeat"
  /\ cancelAt.pc = "before"
  /\ pc = "done"
  /\ result.err = ctxErr

\* ---------------------------------------------------------------- termination
\* C34: Do returns in the end, when every invocation returns, if the
\* backoff is under WithMaxRetries(k), and then after k+1 invocations at
\* most, or if the context is cancelled at some time, whatever the backoff
\* answers and however long the delay is that it is waiting for.
C34_Termination ==
  /\ b.useMax => <>(pc = "done")
  /\ [](b.useMax => calls <= b.max + 1)
  /\ (<>ctxDone) => <>(pc = "done")

C34_Witness ==
  /\ api = "Do"
  /\ pc = "done"
  /\ b.useMax /\ b.max = 2 /\ b.attempt = 2
  /\ calls = 3
  /\ ~ctxDone
  /\ result.err = <<"e1">>

C34_WitnessCancel ==
  /\ api = "Do"
  /\ pc = "done"
  /\ ~b.useMax /\ b.kind = "constant"
  /\ cancelAt.pc = "wait" /\ timer = 2
  /\ result.err = ctxErr

\* ---------------------------------------------------------------- the Fibonacci loop
\* the Next calls of thread t that have returned
Returns(t) == Cardinality({ i \in DOMAIN outs : outs[i].t = t })

\* C39: the loop of the Fibonacci Next starts again only when the swap of
\* another call succeeded since the load, so the retries of a thread are at
\* most the swaps of the other threads and every call returns after finitely
\* many of them; the shared state is at every moment the pair of consecutive
\* terms that as many calls made one after the other leave, and a thread
\* whose load is still current holds that very pair.
C39_FibonacciLockFree ==
  (made = "ok" /\ ~b.useMax /\ b.kind = "fibonacci") =>
    /\ b.pair = FibPairAfter(b.base, b.ver)
    /\ b.ver = Len(outs)
    /\ \A t \in DOMAIN th :
         /\ th[t].tries <= b.ver - Returns(t)
         /\ th[t].pc = "loaded" =>
              /\ th[t].curr.ver <= b.ver
              /\ th[t].curr.pair = FibPairAfter(b.base, th[t].curr.ver)

C39_Witness ==
  /\ ~b.useMax /\ b.kind = "fibonacci"
  /\ Cardinality(DOMAIN th) = 3
  /\ \A t \in DOMAIN th : th[t].left = 0 /\ th[t].pc = "idle"
  /\ \E t \in DOMAIN th : th[t].tries = 2
  /\ b.ver = 3

\* ---------------------------------------------------------------- wrappers
\* C38: Constant, Exponential and Fibonacci called with base <= 0 return the
\* constructor's error without invoking the operation and without
\* panicking; with base > 0 they enter Do with the backoff just built.
C38_Original ==
  /\ pc # "panic"
  /\ (pc # "new" /\ b.base <= 0) =>
       /\ pc = "done"
       /\ result.err \in ConstructionErrors
       /\ calls = 0 /\ nexts = 0
  /\ (pc # "new" /\ b.base > 0) =>
       /\ made = "ok"
       /\ result.err \notin ConstructionErrors
       /\ log = <<>> => (b.n = 0 /\ b.pair = FibonacciInit(b.base))

====
